---- MODULE Spec2Model ----
(***************************************************************************)
(* State-machine model of GJtemplate/views.py: the tracker upload handler  *)
(* api_upload_tracker (sheet locator, row filter, header mapper, value     *)
(* normalizer, CSV overwrite), the client CSV store, the status            *)
(* normalisation helper _clean_status, api_clients_save, the handlers of   *)
(* the reference lists, and requests running concurrently.                 *)
(*                                                                         *)
(* Text is modelled as a sequence of one-character strings, so that        *)
(* strip(), upper(), lower(), replace() and the "in" test are computed     *)
(* character by character as Python computes them.                         *)
(*                                                                         *)
(* A cell value is a record [k, v]:                                        *)
(*   k = "str": a Python str, v its characters                             *)
(*   k = "num": a non-string scalar (int, float), v the text str() gives   *)
(*   k = "nan": pandas' missing marker (NaN), v = << >>                    *)
(*   k = "raise": an exception leaving a function, v its class name        *)
(***************************************************************************)
EXTENDS Integers, Sequences, FiniteSets, TLC

VARIABLES
    pc,          \* position of the request handler
    wb,          \* request.FILES['file']: the uploaded workbook, or NoFile
    sheet_name,  \* api_upload_tracker's local sheet_name
    df,          \* api_upload_tracker's local DataFrame df / df_final
    records,     \* api_upload_tracker's local records
    response,    \* the JsonResponse the handler returned
    store,       \* content of input_csv.csv: a sequence of CSV rows
    storeBefore, \* history: store when the current request arrived
    writeCalls,  \* history: calls of _write_clients_to_csv in this request
    writeArg,    \* history: argument of the last _write_clients_to_csv call
    prev,        \* history: records and store of the import just before
    repeat,      \* history: this request uploads the same workbook again
    value,       \* argument of a direct _clean_status call
    result,      \* what that call returned (or raised)
    files,       \* the one-column CSV files of the reference lists, by name
    listing,     \* the last response of api_master_data
    accepted,    \* history: the statuses added and not removed since
    due,         \* history: accepted when the last listing was made
    req          \* the requests running concurrently, by worker

vars == <<pc, wb, sheet_name, df, records, response, store, storeBefore, writeCalls,
          writeArg, prev, repeat, value, result, files, listing, accepted, due, req>>

\* the state of the upload handler and of the client store
importVars == <<pc, wb, sheet_name, df, records, response, store, storeBefore,
                writeCalls, writeArg, prev, repeat, value, result>>

\* the state of the reference lists and of the concurrent requests
listVars == <<files, listing, accepted, due, req>>

----------------------------------------------------------------------------
(* Values *)

Str(s) == [k |-> "str", v |-> s]
Num(s) == [k |-> "num", v |-> s]
NaN == [k |-> "nan", v |-> << >>]
Raise(s) == [k |-> "raise", v |-> s]

AttributeError == <<"A","t","t","r","i","b","u","t","e","E","r","r","o","r">>
ValueError == <<"V","a","l","u","e","E","r","r","o","r">>
IndexError == <<"I","n","d","e","x","E","r","r","o","r">>

----------------------------------------------------------------------------
(* Helpers *)

Range(f) == {f[i] : i \in DOMAIN f}

\* F applied to the value of e, with e evaluated once: a local variable
Bind(e, F(_)) == CHOOSE y \in {F(x) : x \in {e}} : TRUE

----------------------------------------------------------------------------
(* Python str methods *)

Whitespace == {" ", "\t", "\n"}

LowerLetters ==
    <<"a","b","c","d","e","f","g","h","i","j","k","l","m",
      "n","o","p","q","r","s","t","u","v","w","x","y","z">>

UpperLetters ==
    <<"A","B","C","D","E","F","G","H","I","J","K","L","M",
      "N","O","P","Q","R","S","T","U","V","W","X","Y","Z">>

\* s.strip(): leading and trailing whitespace removed
strip(s) ==
    LET keep == {i \in 1..Len(s) : s[i] \notin Whitespace}
    IN  IF keep = {} THEN << >>
        ELSE LET lo == CHOOSE i \in keep : \A j \in keep : i <= j
                 hi == CHOOSE i \in keep : \A j \in keep : j <= i
             IN  SubSeq(s, lo, hi)

\* s.upper()
upper(s) ==
    [i \in 1..Len(s) |->
        IF \E n \in 1..26 : LowerLetters[n] = s[i]
        THEN UpperLetters[CHOOSE n \in 1..26 : LowerLetters[n] = s[i]]
        ELSE s[i]]

\* s.lower()
lower(s) ==
    [i \in 1..Len(s) |->
        IF \E n \in 1..26 : UpperLetters[n] = s[i]
        THEN LowerLetters[CHOOSE n \in 1..26 : UpperLetters[n] = s[i]]
        ELSE s[i]]

\* s.replace(c, ''), c a single character
replace_by_empty(s, c) == SelectSeq(s, LAMBDA x : x # c)

\* sub in s
contains(sub, s) ==
    \E text \in {s} :
        \E i \in 1..(Len(text) - Len(sub) + 1) :
            SubSeq(text, i, i + Len(sub) - 1) = sub

\* str(value)
str(x) == IF x.k = "nan" THEN <<"n","a","n">> ELSE x.v

\* pd.isna(value)
isna(x) == x.k = "nan"

----------------------------------------------------------------------------
(* _clean_status, views.py 523-530 *)

Pending == <<"P","e","n","d","i","n","g">>
InProgress == <<"I","n"," ","P","r","o","g","r","e","s","s">>
NotApplicable == <<"N","o","t"," ","A","p","p","l","i","c","a","b","l","e">>
Filed == <<"F","i","l","e","d">>

_clean_status_wrong_order(x) ==
    IF isna(x) \/ strip(str(x)) = << >> THEN Str(Pending)
    ELSE Bind(strip(replace_by_empty(replace_by_empty(upper(str(x)), " "), "-")),
              LAMBDA upper_value :
             IF contains(<<"F","I","L","E","D">>, upper_value) THEN Str(Filed)
             ELSE IF contains(<<"W","I","P">>, upper_value) \/ contains(<<"I","N","P","R","O","G","R","E","S","S">>, upper_value)
                  THEN Str(InProgress)
             ELSE IF contains(<<"N","A">>, upper_value) \/ contains(<<"N","O","T","A","P","P","L","I","C","A","B","L","E">>, upper_value)
                  THEN Str(NotApplicable)
             ELSE IF x.k = "str" THEN Str(strip(x.v))
             ELSE Raise(AttributeError))

_clean_status(x) ==
    IF isna(x) \/ strip(str(x)) = << >> THEN Str(Pending)
    ELSE Bind(strip(replace_by_empty(replace_by_empty(upper(str(x)), " "), "-")),
              LAMBDA upper_value :
             IF contains(<<"W","I","P">>, upper_value) \/ contains(<<"I","N","P","R","O","G","R","E","S","S">>, upper_value)
                  THEN Str(InProgress)
             ELSE IF contains(<<"N","A">>, upper_value) \/ contains(<<"N","O","T","A","P","P","L","I","C","A","B","L","E">>, upper_value)
                  THEN Str(NotApplicable)
             ELSE IF contains(<<"F","I","L","E","D">>, upper_value) THEN Str(Filed)
             \* value.strip(): only a str has the method
             ELSE IF x.k = "str" THEN Str(strip(x.v))
             ELSE Raise(AttributeError))

----------------------------------------------------------------------------
(* Configuration tables *)

\* views.py 19-25
ALL_CLIENT_HEADERS ==
    << <<"s","r">>, <<"c","l","i","e","n","t","N","a","m","e">>, <<"g","s","t","i","n">>, <<"c","l","i","e","n","t","T","y","p","e">>, <<"s","e","n","i","o","r">>,
       <<"m","u","l","t","i","R","e","g","i","s","t","r","a","t","i","o","n">>, <<"m","e","m","b","e","r">>, <<"t","u","r","n","o","v","e","r">>, <<"p","a","p","i","l","i","o","I","d">>,
       <<"g","s","t","r","9","S","t","a","t","u","s">>, <<"g","s","t","r","9","c","S","t","a","t","u","s">>, <<"p","r","o","p","o","s","a","l","S","t","a","t","u","s">>,
       <<"t","a","r","g","e","t","D","a","t","e">>, <<"g","s","t","r","9","A","r","n">>, <<"g","s","t","r","9","D","a","t","e">>, <<"g","s","t","r","9","c","A","r","n">>,
       <<"g","s","t","r","9","c","D","a","t","e">>, <<"m","a","i","l","S","e","n","t">>, <<"p","a","p","i","l","i","o","U","p","d","a","t","e">>, <<"r","e","m","a","r","k","s">> >>

\* views.py 488-509: <<source header, canonical field>> in the dict's order
EXCEL_COLUMN_MAPPING ==
    << << <<"S","r">>, <<"s","r">> >>,
       << <<"C","l","i","e","n","t"," ","N","a","m","e">>, <<"c","l","i","e","n","t","N","a","m","e">> >>,
       << <<"G","S","T","I","N">>, <<"g","s","t","i","n">> >>,
       << <<"C","l","i","e","n","t"," ","T","y","p","e">>, <<"c","l","i","e","n","t","T","y","p","e">> >>,
       << <<"S","e","n","i","o","r">>, <<"s","e","n","i","o","r">> >>,
       << <<"M","u","l","t","i"," ","R","e","g","i","s","t","r","a","i","o","n">>, <<"m","u","l","t","i","R","e","g","i","s","t","r","a","t","i","o","n">> >>,
       << <<"M","e","m","b","e","r">>, <<"m","e","m","b","e","r">> >>,
       << <<" ","T","u","r","n","o","v","e","r"," ">>, <<"t","u","r","n","o","v","e","r">> >>,
       << <<" ","P","a","p","i","l","i","o"," ","I","D"," ">>, <<"p","a","p","i","l","i","o","I","d">> >>,
       << <<"G","S","T","R","-","9">>, <<"g","s","t","r","9","S","t","a","t","u","s">> >>,
       << <<"G","S","T","R","-","9","C">>, <<"g","s","t","r","9","c","S","t","a","t","u","s">> >>,
       << <<"B","i","l","l","i","n","g"," ","S","h","e","e","t">>, <<"p","r","o","p","o","s","a","l","S","t","a","t","u","s">> >>,
       << <<"T","a","r","g","e","t"," ","D","a","t","e"," ","R","e","t","u","r","n"," ","t","o"," ","b","e"," ","k","e","p","t"," ","r","e","a","d","y"," ","f","o","r"," ","f","i","l","i","n","g">>, <<"t","a","r","g","e","t","D","a","t","e">> >>,
       << <<"G","S","T","R","-","9"," ","A","R","N">>, <<"g","s","t","r","9","A","r","n">> >>,
       << <<"G","S","T","R","-","9"," ","D","a","t","e">>, <<"g","s","t","r","9","D","a","t","e">> >>,
       << <<"G","S","T","R","-","9","C"," ","A","R","N">>, <<"g","s","t","r","9","c","A","r","n">> >>,
       << <<"G","S","T","R","-","9","C"," ","D","a","t","e">>, <<"g","s","t","r","9","c","D","a","t","e">> >>,
       << <<"C","o","m","p","l","e","t","i","o","n"," ","m","a","i","l"," ","S","e","n","t"," ","t","o"," ","C","l","i","e","n","t">>, <<"m","a","i","l","S","e","n","t">> >>,
       << <<"U","p","d","a","t","e"," ","o","f"," ","P","a","p","i","l","i","o"," ","S","e","r","v","i","c","e">>, <<"p","a","p","i","l","i","o","U","p","d","a","t","e">> >>,
       << <<"R","e","m","a","r","k","s">>, <<"r","e","m","a","r","k","s">> >> >>

\* views.py 511
FINAL_HEADERS == ALL_CLIENT_HEADERS

\* views.py 568
CRITICAL_COLS_TO_CHECK == << <<"C","l","i","e","n","t"," ","N","a","m","e">> >>

\* views.py 551
Tracker == <<"T","r","a","c","k","e","r">>

----------------------------------------------------------------------------
(* pandas DataFrame operations used by api_upload_tracker.                 *)
(* A DataFrame is [columns: sequence of labels, rows: sequence of rows],   *)
(* a row being the sequence of its cells in column order.                  *)


\* x is an exception rather than a value or a frame
IsRaise(x) == "k" \in DOMAIN x /\ x.k = "raise"

\* the positions of the columns labelled c
Positions(d, c) == {i \in 1..Len(d.columns) : d.columns[i] = c}

\* df.columns = df.columns.astype(str).str.strip()      views.py 560
strip_columns(d) ==
    [d EXCEPT !.columns = [i \in 1..Len(d.columns) |-> strip(d.columns[i])]]

\* df.dropna(how='all', inplace=True)                   views.py 571
dropna_all(d) ==
    [d EXCEPT !.rows =
        SelectSeq(d.rows, LAMBDA r : \E i \in 1..Len(r) : ~isna(r[i]))]

\* views.py 573
available_critical_cols(d) ==
    SelectSeq(CRITICAL_COLS_TO_CHECK, LAMBDA c : c \in Range(d.columns))

\* views.py 575-578: df[available].isnull().all(axis=1), df[~is_critical_missing]
drop_critical_missing(d) ==
    LET available == Range(available_critical_cols(d))
    IN  IF available = {} THEN d
        ELSE [d EXCEPT !.rows =
                SelectSeq(d.rows, LAMBDA r :
                    ~(\A i \in 1..Len(r) :
                        d.columns[i] \in available => isna(r[i])))]

\* a mutant of is_redundant_cell: the comparison keeps the case
is_redundant_cell_cased(x, literal) == strip(str(x)) = literal

\* the test of views.py 585 and 597 on one cell:
\* .astype(str).str.strip().str.lower() == literal
is_redundant_cell(x, literal) == lower(strip(str(x))) = literal

\* views.py 582-588 and 595-600: if col in df.columns, drop the rows whose
\* cell in col matches.  df[col] is a DataFrame, which has no .str, when
\* several columns carry the label.
drop_redundant_rows(d, col, literal) ==
    IF Positions(d, col) = {} THEN d
    ELSE IF Cardinality(Positions(d, col)) > 1 THEN Raise(AttributeError)
    ELSE LET i == CHOOSE j \in Positions(d, col) : TRUE
         IN  [d EXCEPT !.rows =
                SelectSeq(d.rows, LAMBDA r : ~is_redundant_cell(r[i], literal))]

\* the row filter, views.py 567-602
row_filter(d) ==
    Bind(dropna_all(d), LAMBDA d0 :
    Bind(drop_critical_missing(d0), LAMBDA d1 :
    Bind(drop_redundant_rows(d1, <<"S","r">>, <<"s","r">>), LAMBDA d2 :
        IF IsRaise(d2) THEN d2
        ELSE drop_redundant_rows(d2, <<"C","l","i","e","n","t"," ","N","a","m","e">>, <<"n","o","t"," ","a","p","p","l","i","c","a","b","l","e">>))))

\* one label through df.rename(columns=EXCEL_COLUMN_MAPPING)
rename_label(c) ==
    IF \E n \in 1..Len(EXCEL_COLUMN_MAPPING) : EXCEL_COLUMN_MAPPING[n][1] = c
    THEN EXCEL_COLUMN_MAPPING[
             CHOOSE n \in 1..Len(EXCEL_COLUMN_MAPPING) :
                 EXCEL_COLUMN_MAPPING[n][1] = c][2]
    ELSE c

\* df.rename(columns=EXCEL_COLUMN_MAPPING, inplace=True)  views.py 609
rename(d) ==
    [d EXCEPT !.columns = [i \in 1..Len(d.columns) |-> rename_label(d.columns[i])]]

\* one row through reindex: the cell of the column labelled like the target,
\* NaN for a target label the frame does not have
reindex_row(d, r) ==
    [j \in 1..Len(FINAL_HEADERS) |->
        IF Positions(d, FINAL_HEADERS[j]) = {} THEN NaN
        ELSE r[CHOOSE i \in Positions(d, FINAL_HEADERS[j]) : TRUE]]

\* df.reindex(columns=FINAL_HEADERS)                     views.py 612
\* pandas refuses to reindex an axis with duplicate labels.
reindex(d) ==
    IF \E i, j \in 1..Len(d.columns) : i # j /\ d.columns[i] = d.columns[j]
    THEN Raise(ValueError)
    ELSE [columns |-> FINAL_HEADERS,
          rows |-> [n \in 1..Len(d.rows) |-> reindex_row(d, d.rows[n])]]

\* .fillna('')                                           views.py 612
fillna(d) ==
    [d EXCEPT !.rows =
        [n \in 1..Len(d.rows) |->
            [j \in 1..Len(d.rows[n]) |->
                IF isna(d.rows[n][j]) THEN Str(<< >>) ELSE d.rows[n][j]]]]

\* the header mapper, views.py 606-612
header_mapper(d) ==
    Bind(rename(d), LAMBDA renamed :
    Bind(reindex(renamed), LAMBDA df_final :
        IF IsRaise(df_final) THEN df_final ELSE fillna(df_final)))

\* a mutant of replace_multi: the entry for '' is missing
replace_multi_no_empty(x) ==
    IF x = Str(<<"M","u","l","t","i","p","l","e">>) THEN Str(<<"Y","e","s">>)
    ELSE IF x = Str(<<"S","i","n","g","l","e">>) THEN Str(<<"N","o">>)
    ELSE x

\* .replace({'Multiple': 'Yes', 'Single': 'No', '': 'No'}) on one cell, views.py 616
replace_multi(x) ==
    IF x = Str(<<"M","u","l","t","i","p","l","e">>) THEN Str(<<"Y","e","s">>)
    ELSE IF x = Str(<<"S","i","n","g","l","e">>) THEN Str(<<"N","o">>)
    ELSE IF x = Str(<< >>) THEN Str(<<"N","o">>)
    ELSE x

\* the position of a canonical field in FINAL_HEADERS
Field(name) == CHOOSE j \in 1..Len(FINAL_HEADERS) : FINAL_HEADERS[j] = name

StatusFields == {Field(<<"g","s","t","r","9","S","t","a","t","u","s">>), Field(<<"g","s","t","r","9","c","S","t","a","t","u","s">>), Field(<<"p","r","o","p","o","s","a","l","S","t","a","t","u","s">>)}

\* views.py 615-619 on one row of df_final
clean_row(r) ==
    [j \in 1..Len(r) |->
        IF j = Field(<<"m","u","l","t","i","R","e","g","i","s","t","r","a","t","i","o","n">>) THEN replace_multi(r[j])
        ELSE IF j \in StatusFields THEN _clean_status(r[j])
        ELSE r[j]]

\* the value normalizer, views.py 614-619: Series.apply lets the exception
\* of _clean_status leave the handler's try block
value_normalizer(d) ==
    Bind([n \in 1..Len(d.rows) |-> clean_row(d.rows[n])], LAMBDA rows :
        IF \E n \in 1..Len(rows) : \E j \in StatusFields : IsRaise(rows[n][j])
        THEN Raise(AttributeError)
        ELSE [d EXCEPT !.rows = rows])

\* a mutant of to_dict_records: a field without a value gets no key
to_dict_records_sparse(d) ==
    [n \in 1..Len(d.rows) |->
        SelectSeq([j \in 1..Len(d.columns) |-> <<d.columns[j], d.rows[n][j]>>],
                  LAMBDA item : item[2] # Str(<< >>))]

\* df_final.to_dict('records'), views.py 628: one dict per row, a dict being
\* the sequence of its <<key, value>> items in insertion order
to_dict_records(d) ==
    [n \in 1..Len(d.rows) |->
        [j \in 1..Len(d.columns) |-> <<d.columns[j], d.rows[n][j]>>]]

----------------------------------------------------------------------------
(* The client store: input_csv.csv as the sequence of its CSV rows, each   *)
(* row the sequence of its text fields; << >> is the absent or empty file. *)

\* rowdict.get(key, restval) of csv.DictWriter, restval ''
dict_get(row, key) ==
    IF \E i \in 1..Len(row) : row[i][1] = key
    THEN (row[CHOOSE i \in 1..Len(row) : row[i][1] = key][2]).v
    ELSE << >>

\* csv.DictWriter.writerow(row): a key outside fieldnames raises ValueError
\* (extrasaction='raise'), a missing key is written as ''; every value is
\* written as its str()
writerow(row) ==
    IF \E i \in 1..Len(row) : row[i][1] \notin Range(ALL_CLIENT_HEADERS)
    THEN Raise(ValueError)
    ELSE Str([j \in 1..Len(ALL_CLIENT_HEADERS) |-> dict_get(row, ALL_CLIENT_HEADERS[j])])

\* a mutant of _write_clients_to_csv: the file is opened for append
_write_clients_to_csv_append(old, clients) ==
    [file |-> old \o [n \in 1..Len(clients) |-> writerow(clients[n]).v],
     error |-> NaN]

\* views.py 39-50: open(..., "w") truncates, writeheader(), then one
\* writerow per client; a row that raises leaves the rows before it in the
\* file.  old is the file's content before the call.
_write_clients_to_csv(old, clients) ==
    LET bad == {n \in 1..Len(clients) : IsRaise(writerow(clients[n]))}
        written == IF bad = {} THEN Len(clients)
                   ELSE (CHOOSE n \in bad : \A m \in bad : n <= m) - 1
    IN  [file |-> <<ALL_CLIENT_HEADERS>> \o
                  [n \in 1..written |-> writerow(clients[n]).v],
         error |-> IF bad = {} THEN NaN ELSE Raise(ValueError)]

\* views.py 28-36: csv.DictReader, the first row being the field names
_read_clients_from_csv(file) ==
    IF file = << >> THEN << >>
    ELSE [n \in 1..(Len(file) - 1) |->
            [j \in 1..Len(file[n + 1]) |-> <<file[1][j], Str(file[n + 1][j])>>]]

----------------------------------------------------------------------------
(* The upload handler api_upload_tracker, views.py 536-646, step by step *)

NoFile == [present |-> FALSE, readable |-> FALSE, sheets |-> << >>]
NoFrame == [columns |-> << >>, rows |-> << >>]
NoResponse == [status |-> 0, count |-> 0, error |-> << >>, stage |-> "none"]
NoImport == [records |-> << >>, store |-> << >>]

\* xls.sheet_names
sheet_names(f) == [i \in 1..Len(f.sheets) |-> f.sheets[i].name]

\* a mutant of locate_sheet: the first sheet, whatever it is called
locate_sheet_first(names) ==
    IF names = << >> THEN Raise(IndexError) ELSE Str(names[1])

\* views.py 551-554: 'Tracker' if the workbook has it, else sheet_names[0]
locate_sheet(names) ==
    IF Tracker \in Range(names) THEN Str(Tracker)
    ELSE IF names = << >> THEN Raise(IndexError)
    ELSE Str(names[1])

\* pd.read_excel(xls, sheet_name=sheet_name, header=2): the frame of the
\* sheet of that name (sheet names are unique in a workbook)
read_excel(f, name) ==
    f.sheets[CHOOSE i \in 1..Len(f.sheets) : f.sheets[i].name = name].df

\* a mutant of Abort: the except branch does not return
Abort_falls_through(stage, e) ==
    /\ pc' = "write"
    /\ response' = [status |-> 500, count |-> 0, error |-> e.v, stage |-> stage]

\* the except branch, views.py 630-632
Abort(stage, e) ==
    /\ pc' = "done"
    /\ response' = [status |-> 500, count |-> 0, error |-> e.v, stage |-> stage]

\* a request arrives with the upload f
ReceiveFile(f) ==
    /\ pc = "idle"
    /\ wb' = f
    /\ pc' = "files"
    /\ sheet_name' = << >>
    /\ df' = NoFrame
    /\ records' = << >>
    /\ response' = NoResponse
    /\ storeBefore' = store
    /\ writeCalls' = 0
    /\ writeArg' = << >>
    /\ prev' = NoImport
    /\ repeat' = FALSE
    /\ UNCHANGED <<store, value, result>>
    /\ UNCHANGED listVars

\* the import succeeded and the caller uploads the same workbook again
ReUpload ==
    /\ pc = "done"
    /\ response.status = 200
    /\ pc' = "files"
    /\ sheet_name' = << >>
    /\ df' = NoFrame
    /\ records' = << >>
    /\ response' = NoResponse
    /\ storeBefore' = store
    /\ writeCalls' = 0
    /\ writeArg' = << >>
    /\ prev' = [records |-> records, store |-> store]
    /\ repeat' = TRUE
    /\ UNCHANGED <<wb, store, value, result>>
    /\ UNCHANGED listVars

\* views.py 543-547
CheckFile ==
    /\ pc = "files"
    /\ IF ~wb.present
       THEN /\ pc' = "done"
            /\ response' = [status |-> 400, count |-> 0,
                            error |-> <<"N","o"," ","f","i","l","e"," ","u","p","l","o","a","d","e","d",".">>, stage |-> "files"]
       ELSE /\ pc' = "open"
            /\ UNCHANGED response
    /\ UNCHANGED <<wb, sheet_name, df, records, store, storeBefore, writeCalls,
                   writeArg, prev, repeat, value, result>>
    /\ UNCHANGED listVars

\* views.py 550: pd.ExcelFile(uploaded_file) raises on a file that is no workbook
OpenExcel ==
    /\ pc = "open"
    /\ IF ~wb.readable
       THEN Abort("open", Raise(ValueError))
       ELSE /\ pc' = "locate"
            /\ UNCHANGED response
    /\ UNCHANGED <<wb, sheet_name, df, records, store, storeBefore, writeCalls,
                   writeArg, prev, repeat, value, result>>
    /\ UNCHANGED listVars

\* views.py 551-554
Locate ==
    /\ pc = "locate"
    /\ \E found \in {locate_sheet(sheet_names(wb))} :
           IF IsRaise(found)
           THEN /\ Abort("locate", found)
                /\ UNCHANGED sheet_name
           ELSE /\ sheet_name' = found.v
                /\ pc' = "read"
                /\ UNCHANGED response
    /\ UNCHANGED <<wb, df, records, store, storeBefore, writeCalls,
                   writeArg, prev, repeat, value, result>>
    /\ UNCHANGED listVars

\* views.py 557-560
ReadSheet ==
    /\ pc = "read"
    /\ df' = strip_columns(read_excel(wb, sheet_name))
    /\ pc' = "filter"
    /\ UNCHANGED <<wb, sheet_name, records, response, store, storeBefore,
                   writeCalls, writeArg, prev, repeat, value, result>>
    /\ UNCHANGED listVars

\* views.py 567-602
Filter ==
    /\ pc = "filter"
    /\ \E out \in {row_filter(df)} :
           IF IsRaise(out)
           THEN /\ Abort("filter", out)
                /\ UNCHANGED df
           ELSE /\ df' = out
                /\ pc' = "map"
                /\ UNCHANGED response
    /\ UNCHANGED <<wb, sheet_name, records, store, storeBefore, writeCalls,
                   writeArg, prev, repeat, value, result>>
    /\ UNCHANGED listVars

\* views.py 606-612
Map ==
    /\ pc = "map"
    /\ \E out \in {header_mapper(df)} :
           IF IsRaise(out)
           THEN /\ Abort("map", out)
                /\ UNCHANGED df
           ELSE /\ df' = out
                /\ pc' = "normalize"
                /\ UNCHANGED response
    /\ UNCHANGED <<wb, sheet_name, records, store, storeBefore, writeCalls,
                   writeArg, prev, repeat, value, result>>
    /\ UNCHANGED listVars

\* views.py 614-628
Normalize ==
    /\ pc = "normalize"
    /\ \E out \in {value_normalizer(df)} :
           IF IsRaise(out)
           THEN /\ Abort("normalize", out)
                /\ UNCHANGED <<df, records>>
           ELSE /\ df' = out
                /\ records' = to_dict_records(out)
                /\ pc' = "write"
                /\ UNCHANGED response
    /\ UNCHANGED <<wb, sheet_name, store, storeBefore, writeCalls,
                   writeArg, prev, repeat, value, result>>
    /\ UNCHANGED listVars

\* views.py 634-646
WriteCsv ==
    /\ pc = "write"
    /\ \E written \in {_write_clients_to_csv(store, records)} :
           /\ store' = written.file
           /\ response' =
                IF IsRaise(written.error)
                THEN [status |-> 500, count |-> 0, error |-> written.error.v,
                      stage |-> "write"]
                ELSE [status |-> 200, count |-> Len(records), error |-> << >>,
                      stage |-> "write"]
    /\ writeCalls' = writeCalls + 1
    /\ writeArg' = records
    /\ pc' = "done"
    /\ UNCHANGED <<wb, sheet_name, df, records, storeBefore, prev, repeat,
                   value, result>>
    /\ UNCHANGED listVars

\* the response is returned and the handler's frame is gone
Return ==
    /\ pc = "done"
    /\ pc' = "idle"
    /\ wb' = NoFile
    /\ sheet_name' = << >>
    /\ df' = NoFrame
    /\ records' = << >>
    /\ response' = NoResponse
    /\ storeBefore' = store
    /\ writeCalls' = 0
    /\ writeArg' = << >>
    /\ prev' = NoImport
    /\ repeat' = FALSE
    /\ UNCHANGED <<store, value, result>>
    /\ UNCHANGED listVars

\* api_clear_clients, views.py 648-673
ClearClients ==
    /\ pc = "idle"
    /\ store' = _write_clients_to_csv(store, << >>).file
    /\ storeBefore' = store'
    /\ UNCHANGED <<pc, wb, sheet_name, df, records, response,
                   writeCalls, writeArg, prev, repeat, value, result>>
    /\ UNCHANGED listVars

\* a direct call of _clean_status(value)
CleanStatusCall ==
    /\ pc = "call"
    /\ result' = _clean_status(value)
    /\ pc' = "returned"
    /\ UNCHANGED <<wb, sheet_name, df, records, response, store, storeBefore,
                   writeCalls, writeArg, prev, repeat, value>>
    /\ UNCHANGED listVars

----------------------------------------------------------------------------
(* api_clients_save, views.py 84-144.  A request body is                    *)
(* [kind, clients]: kind "malformed" is no JSON, "notdict" a JSON value     *)
(* that is no object, "nokey" an object without 'clients', "notlist" an     *)
(* object whose 'clients' is no list, "list" an object whose 'clients' is   *)
(* the list of dicts in the clients field.                                  *)

JSONDecodeError == <<"J","S","O","N","D","e","c","o","d","e","E","r","r","o","r">>

\* the try block, views.py 94-137: json.loads, payload.get("clients", []),
\* the isinstance test; the result is the clients list or the exception
save_payload(body) ==
    IF body.kind = "malformed" THEN Raise(JSONDecodeError)
    ELSE IF body.kind = "notdict" THEN Raise(AttributeError)
    ELSE IF body.kind = "nokey" THEN [k |-> "list", v |-> << >>]
    ELSE IF body.kind = "notlist" THEN Raise(ValueError)
    ELSE [k |-> "list", v |-> body.clients]

\* views.py 94-141: the payload is read; an exception returns status 400
SaveParse(body) ==
    /\ pc = "idle"
    /\ \E clients \in {save_payload(body)} :
           IF IsRaise(clients)
           THEN /\ pc' = "done"
                /\ response' = [status |-> 400, count |-> 0, error |-> clients.v,
                                stage |-> "payload"]
                /\ UNCHANGED records
           ELSE /\ pc' = "save"
                /\ records' = clients.v
                /\ UNCHANGED response
    /\ UNCHANGED <<wb, sheet_name, df, store, storeBefore, writeCalls,
                   writeArg, prev, repeat, value, result>>
    /\ UNCHANGED listVars

\* views.py 143-144: the write, outside the try block; an exception of
\* _write_clients_to_csv leaves the view and Django answers with status 500
SaveWrite ==
    /\ pc = "save"
    /\ \E written \in {_write_clients_to_csv(store, records)} :
           /\ store' = written.file
           /\ response' =
                IF IsRaise(written.error)
                THEN [status |-> 500, count |-> 0, error |-> written.error.v,
                      stage |-> "write"]
                ELSE [status |-> 200, count |-> Len(records), error |-> << >>,
                      stage |-> "write"]
    /\ writeCalls' = writeCalls + 1
    /\ writeArg' = records
    /\ pc' = "done"
    /\ UNCHANGED <<wb, sheet_name, df, records, storeBefore, prev, repeat,
                   value, result>>
    /\ UNCHANGED listVars

----------------------------------------------------------------------------
(* The reference lists, views.py 53-72 and 165-478.  A one-column CSV file  *)
(* is the sequence of its rows, a row the sequence of its fields; << >> is  *)
(* the absent file.  A request body is [kind, name]: kind "malformed" is    *)
(* no JSON, "ok" an object whose 'name' (or 'status') field is name.        *)

FileNames ==
    {"seniors.csv", "members.csv", "custom_columns.csv",
     "proposal_status_master.csv", "gstr_status_master.csv",
     "proposal_status.csv", "gstr9_status.csv", "gstr9c_status.csv"}

\* views.py 53-62: the first field of every non-empty row after the header
_read_single_column_csv(file) ==
    IF file = << >> THEN << >>
    ELSE [n \in 1..Len(SelectSeq(Tail(file), LAMBDA r : r # << >>)) |->
            SelectSeq(Tail(file), LAMBDA r : r # << >>)[n][1]]

\* views.py 65-72: the content the file gets, the header and one row per value
_write_single_column_csv(header, values) ==
    << <<header>> >> \o [n \in 1..Len(values) |-> <<values[n]>>]

\* the answer of a reference-list handler
ListResponse(status, error) ==
    [status |-> status, count |-> 0, error |-> error, stage |-> "list"]

\* the add handlers of the status lists, views.py 321-339, 362-377 and
\* 400-415: the status is trimmed, refused when already in the file, else
\* appended and the file rewritten.  Only api_add_proposal_status refuses
\* an empty status (required).
add_status(list, file, header, required, body) ==
    IF body.kind = "malformed"
    THEN /\ response' = ListResponse(500, JSONDecodeError)
         /\ UNCHANGED <<files, accepted>>
    ELSE \E status \in {strip(body.name)} :
         \E statuses \in {_read_single_column_csv(files[file])} :
            IF required /\ status = << >>
            THEN /\ response' = ListResponse(400, <<"N","o"," ","s","t","a","t","u","s"," ","g","i","v","e","n">>)
                 /\ UNCHANGED <<files, accepted>>
            ELSE IF status \in Range(statuses)
            THEN /\ response' = ListResponse(400, <<"S","t","a","t","u","s"," ","a","l","r","e","a","d","y"," ","e","x","i","s","t","s">>)
                 /\ UNCHANGED <<files, accepted>>
            ELSE /\ files' = [files EXCEPT ![file] =
                        _write_single_column_csv(header, Append(statuses, status))]
                 /\ response' = ListResponse(200, << >>)
                 /\ accepted' = accepted \cup {<<list, status>>}

\* the remove handlers of the status lists, views.py 344-356, 382-394 and
\* 420-432: every occurrence is filtered out and the file rewritten
remove_status(list, file, header, body) ==
    IF body.kind = "malformed"
    THEN /\ response' = ListResponse(500, JSONDecodeError)
         /\ UNCHANGED <<files, accepted>>
    ELSE \E status \in {strip(body.name)} :
         \E statuses \in {_read_single_column_csv(files[file])} :
            /\ files' = [files EXCEPT ![file] =
                    _write_single_column_csv(header,
                        SelectSeq(statuses, LAMBDA x : x # status))]
            /\ response' = ListResponse(200, << >>)
            /\ accepted' = accepted \ {<<list, status>>}

\* what a status-list request leaves alone
ListFrame ==
    UNCHANGED <<pc, wb, sheet_name, df, records, store, storeBefore, writeCalls,
                writeArg, prev, repeat, value, result, listing, due, req>>

api_add_proposal_status(body) ==
    /\ pc = "idle"
    /\ add_status("proposalStatuses", "proposal_status.csv", <<"p","r","o","p","o","s","a","l","S","t","a","t","u","s">>, TRUE, body)
    /\ ListFrame

api_remove_proposal_status(body) ==
    /\ pc = "idle"
    /\ remove_status("proposalStatuses", "proposal_status.csv", <<"p","r","o","p","o","s","a","l","S","t","a","t","u","s">>, body)
    /\ ListFrame

api_add_gstr9_status(body) ==
    /\ pc = "idle"
    /\ add_status("gstr9Statuses", "gstr9_status.csv", <<"g","s","t","r","9","S","t","a","t","u","s">>, FALSE, body)
    /\ ListFrame

api_remove_gstr9_status(body) ==
    /\ pc = "idle"
    /\ remove_status("gstr9Statuses", "gstr9_status.csv", <<"g","s","t","r","9","S","t","a","t","u","s">>, body)
    /\ ListFrame

api_add_gstr9c_status(body) ==
    /\ pc = "idle"
    /\ add_status("gstr9cStatuses", "gstr9c_status.csv", <<"g","s","t","r","9","c","S","t","a","t","u","s">>, FALSE, body)
    /\ ListFrame

api_remove_gstr9c_status(body) ==
    /\ pc = "idle"
    /\ remove_status("gstr9cStatuses", "gstr9c_status.csv", <<"g","s","t","r","9","c","S","t","a","t","u","s">>, body)
    /\ ListFrame

\* views.py 165-180: the six lists, each read from its file
api_master_data ==
    /\ pc = "idle"
    /\ listing' =
          [seniors |-> _read_single_column_csv(files["seniors.csv"]),
           members |-> _read_single_column_csv(files["members.csv"]),
           proposalStatuses |-> _read_single_column_csv(files["proposal_status_master.csv"]),
           gstr9Statuses |-> _read_single_column_csv(files["gstr_status_master.csv"]),
           gstr9cStatuses |-> _read_single_column_csv(files["gstr_status_master.csv"]),
           customColumns |-> _read_single_column_csv(files["custom_columns.csv"])]
    /\ due' = accepted
    /\ response' = ListResponse(200, << >>)
    /\ UNCHANGED <<pc, wb, sheet_name, df, records, store, storeBefore, writeCalls,
                   writeArg, prev, repeat, value, result, files, accepted, req>>

----------------------------------------------------------------------------
(* Concurrent requests.  Every request runs in a worker of its own; req[w]  *)
(* is the frame of worker w, its steps are the accesses to the shared       *)
(* files, and the workers' steps interleave freely.  A file position is     *)
(* counted in rows.                                                         *)

Workers == {1, 2}

\* the bytes a write beyond the end of a file leaves in between
Hole == << <<"\\0">> >>

\* write(fd, rows) at position pos of a file: the rows replace what is
\* there, what lies after them stays, a gap before them is filled with holes
pwrite(file, pos, rows) ==
    [i \in 1..(IF Len(file) > pos + Len(rows) THEN Len(file) ELSE pos + Len(rows)) |->
        IF i > pos /\ i <= pos + Len(rows) THEN rows[i - pos]
        ELSE IF i <= Len(file) THEN file[i]
        ELSE Hole]

\* the file and the header row of the lists of api_add_senior (230-249),
\* api_add_member (276-295) and api_add_custom_column (436-456)
ListFile(list) ==
    CASE list = "seniors" -> "seniors.csv"
      [] list = "members" -> "members.csv"
      [] list = "customColumns" -> "custom_columns.csv"

ListHeader(list) ==
    CASE list = "seniors" -> <<"S","e","n","i","o","r">>
      [] list = "members" -> <<"M","e","m","b","e","r">>
      [] list = "customColumns" -> <<"C","u","s","t","o","m"," ","C","o","l","u","m","n">>

\* views.py 232-243: the body is parsed, the name trimmed, the list read
\* from its file and the name appended to the copy the worker holds
AddRead(w) ==
    /\ req[w].pc = "start"
    /\ IF req[w].body.kind = "malformed"
       THEN req' = [req EXCEPT ![w].pc = "done", ![w].status = 500]
       ELSE \E name \in {strip(req[w].body.name)} :
            \E names \in {_read_single_column_csv(files[ListFile(req[w].list)])} :
                IF name = << >> \/ name \in Range(names)
                THEN req' = [req EXCEPT ![w].pc = "done", ![w].status = 400]
                ELSE req' = [req EXCEPT ![w].pc = "open",
                                        ![w].local = Append(names, name)]
    /\ UNCHANGED <<importVars, files, listing, accepted, due>>

\* views.py 67: path.open("w") truncates the file
AddOpen(w) ==
    /\ req[w].pc = "open"
    /\ files' = [files EXCEPT ![ListFile(req[w].list)] = << >>]
    /\ req' = [req EXCEPT ![w].pc = "dump"]
    /\ UNCHANGED <<importVars, listing, accepted, due>>

\* views.py 68-72: the rows are written; they reach the file, from its
\* start, when the with block closes it; then the handler answers ok
AddDump(w) ==
    /\ req[w].pc = "dump"
    /\ files' = [files EXCEPT ![ListFile(req[w].list)] =
            pwrite(@, 0, _write_single_column_csv(ListHeader(req[w].list), req[w].local))]
    /\ req' = [req EXCEPT ![w].pc = "done", ![w].status = 200]
    /\ UNCHANGED <<importVars, listing, accepted, due>>

\* views.py 550-628 on the workbook f, none of which touches shared state:
\* the records, or the exception that ends the request
pipeline(f) ==
    Bind(locate_sheet(sheet_names(f)), LAMBDA found :
        IF IsRaise(found) THEN found
        ELSE Bind(row_filter(strip_columns(read_excel(f, found.v))), LAMBDA filtered :
        IF IsRaise(filtered) THEN filtered
        ELSE Bind(header_mapper(filtered), LAMBDA mapped :
        IF IsRaise(mapped) THEN mapped
        ELSE Bind(value_normalizer(mapped), LAMBDA final :
        IF IsRaise(final) THEN final
        ELSE [k |-> "records", v |-> to_dict_records(final)]))))

\* api_upload_tracker in worker w up to the write, views.py 543-632
RacePipeline(w) ==
    /\ req[w].pc = "start"
    /\ \E out \in {pipeline(req[w].wb)} :
           IF IsRaise(out)
           THEN req' = [req EXCEPT ![w].pc = "done", ![w].status = 500]
           ELSE req' = [req EXCEPT ![w].pc = "open", ![w].records = out.v]
    /\ UNCHANGED <<importVars, files, listing, accepted, due>>

\* views.py 45-50: csv_path.open("w") truncates input_csv.csv; then
\* writeheader() and one writerow per record put their text into the
\* buffer of the file object, which touches no shared state
RaceOpen(w) ==
    /\ req[w].pc = "open"
    /\ store' = << >>
    /\ req' = [req EXCEPT
            ![w].pc = "rows",
            ![w].pos = 0,
            ![w].buf = <<ALL_CLIENT_HEADERS>> \o
                       [n \in 1..Len(req[w].records) |-> writerow(req[w].records[n]).v]]
    /\ UNCHANGED <<pc, wb, sheet_name, df, records, response, storeBefore, writeCalls,
                   writeArg, prev, repeat, value, result, files, listing, accepted, due>>

\* the buffer of the file object filled up during the loop: its first k
\* rows are written out at the worker's file position
RaceFlush(w) ==
    /\ req[w].pc = "rows"
    /\ \E k \in 1..(Len(req[w].buf) - 1) :
           /\ store' = pwrite(store, req[w].pos, SubSeq(req[w].buf, 1, k))
           /\ req' = [req EXCEPT ![w].pos = @ + k,
                                  ![w].buf = SubSeq(@, k + 1, Len(@))]
    /\ UNCHANGED <<pc, wb, sheet_name, df, records, response, storeBefore, writeCalls,
                   writeArg, prev, repeat, value, result, files, listing, accepted, due>>

\* the with block ends: the rest of the buffer is written out and the file
\* closed; the handler answers ok (views.py 636-643)
RaceClose(w) ==
    /\ req[w].pc = "rows"
    /\ store' = pwrite(store, req[w].pos, req[w].buf)
    /\ req' = [req EXCEPT ![w].pc = "done", ![w].status = 200,
                           ![w].pos = @ + Len(req[w].buf), ![w].buf = << >>]
    /\ UNCHANGED <<pc, wb, sheet_name, df, records, response, storeBefore, writeCalls,
                   writeArg, prev, repeat, value, result, files, listing, accepted, due>>

----------------------------------------------------------------------------
(* Bounded inputs *)

MaxTokens == 3
MaxRows == 2
MaxSheets == 2

\* fragments of status texts
Tokens ==
    { <<"W","I","P">>, <<"I","n">>, <<"-">>, <<" ">>, <<"P","r","o","g","r","e","s","s">>, <<"N","/","A">>, <<"n","a">>, <<"N","o","t">>,
      <<"A","p","p","l","i","c","a","b","l","e">>, <<"F","i","l","e","d">>, <<"\t">>, <<"o","n"," ","1","2","/","1">>, <<"S","o","m","e"," ","O","t","h","e","r"," ","T","e","x","t">> }

RECURSIVE Texts(_)
Texts(n) ==
    IF n = 0 THEN {<< >>}
    ELSE LET shorter == Texts(n - 1)
         IN  shorter \cup {s \o t : s \in shorter, t \in Tokens}

\* arguments of _clean_status: texts, numbers and the missing marker
StatusInputs ==
    {Str(s) : s \in Texts(MaxTokens)} \cup {NaN, Num(<<"7">>), Num(<<"2",".","5">>)}

\* header cells of an uploaded sheet, as pd.read_excel returns them
SheetHeaders ==
    { <<"S","r">>, <<"S","r"," ">>, <<"s","r">>, <<"C","l","i","e","n","t"," ","N","a","m","e">>, <<" ","T","u","r","n","o","v","e","r"," ">>,
      <<"M","u","l","t","i"," ","R","e","g","i","s","t","r","a","i","o","n">>, <<"G","S","T","R","-","9">>, <<"G","S","T","R","-","9","C">>, <<"B","i","l","l","i","n","g"," ","S","h","e","e","t">>,
      <<"N","o","t","e","s">> }

\* cells under a header, as pd.read_excel returns them (an empty cell and
\* the texts pandas reads as missing arrive as NaN)
CellsFor(h) ==
    CASE h = <<"S","r">> -> {NaN, Num(<<"7">>), Str(<<" ","S","R"," ">>)}
      [] h = <<"S","r"," ">> -> {NaN, Str(<<"2">>)}
      [] h = <<"s","r">> -> {NaN, Str(<<"9">>)}
      [] h = <<"C","l","i","e","n","t"," ","N","a","m","e">> -> {NaN, Str(<<"A","c","m","e">>), Str(<<" ","N","o","t"," ","A","p","p","l","i","c","a","b","l","e">>)}
      [] h = <<" ","T","u","r","n","o","v","e","r"," ">> -> {NaN, Str(<<"5"," ","C","r">>)}
      [] h = <<"M","u","l","t","i"," ","R","e","g","i","s","t","r","a","i","o","n">> ->
            {NaN, Str(<<"M","u","l","t","i","p","l","e">>), Str(<<"S","i","n","g","l","e">>), Str(<<"Y","e","s">>)}
      [] h = <<"G","S","T","R","-","9">> -> {NaN, Str(<<"w","-","i","p"," ">>), Num(<<"7">>)}
      [] h = <<"G","S","T","R","-","9","C">> -> {NaN, Str(<<"F","i","n","a","l">>)}
      [] h = <<"B","i","l","l","i","n","g"," ","S","h","e","e","t">> -> {NaN, Str(<<" ","o","k"," ">>)}
      [] h = <<"m","u","l","t","i","R","e","g","i","s","t","r","a","t","i","o","n">> -> {NaN, Str(<<"S","i","n","g","l","e">>)}
      [] OTHER -> {NaN, Str(<<"j","u","n","k">>)}

\* the header rows: every sheet of one or two columns of SheetHeaders, one
\* of three, and two with a column already headed by a canonical field
Layouts ==
    {<<h>> : h \in SheetHeaders}
    \cup {p \in {<<g, h>> : g, h \in SheetHeaders} : p[1] # p[2]}
    \cup {<< <<"C","l","i","e","n","t"," ","N","a","m","e">>, <<"N","o","t","e","s">>, <<"S","r">> >>,
          << <<"C","l","i","e","n","t"," ","N","a","m","e">>, <<"m","u","l","t","i","R","e","g","i","s","t","r","a","t","i","o","n">> >>,
          << <<"M","u","l","t","i"," ","R","e","g","i","s","t","r","a","i","o","n">>, <<"m","u","l","t","i","R","e","g","i","s","t","r","a","t","i","o","n">> >>}

RECURSIVE RowsOf(_)
RowsOf(cols) ==
    IF cols = << >> THEN {<< >>}
    ELSE {<<c>> \o r : c \in CellsFor(Head(cols)), r \in RowsOf(Tail(cols))}

\* the upload of a workbook whose one sheet, called Tracker, is the frame d
SheetUpload(d) ==
    [present |-> TRUE, readable |-> TRUE,
     sheets |-> <<[name |-> Tracker, df |-> d]>>]

SheetNames == { Tracker, <<"t","r","a","c","k","e","r">>, <<"D","a","t","a">> }

\* the sheets of the server runs: imports of one, two and no record, and
\* one sheet failing in each of the filter, the mapper and the normalizer
ServerFrames ==
    { [columns |-> << <<"S","r">>, <<"C","l","i","e","n","t"," ","N","a","m","e">>, <<"G","S","T","R","-","9">> >>,
       rows |-> << <<Num(<<"1">>), Str(<<"A","c","m","e"," ","C","o">>), Str(<<"W","I","P">>)>> >>],
      [columns |-> << <<"C","l","i","e","n","t"," ","N","a","m","e">> >>,
       rows |-> << <<Str(<<"B","e","t","a">>)>>, <<Str(<<"G","a","m","m","a">>)>> >>],
      [columns |-> << <<"S","r">> >>, rows |-> << >>],
      [columns |-> << <<"S","r">>, <<"S","r"," ">> >>,
       rows |-> << <<Str(<<"1">>), Str(<<"2">>)>> >>],
      [columns |-> << <<"G","S","T","I","N">>, <<"g","s","t","i","n">> >>,
       rows |-> << <<Str(<<"2","2","A">>), Str(<<"2","2","B">>)>> >>],
      [columns |-> << <<"C","l","i","e","n","t"," ","N","a","m","e">>, <<"G","S","T","R","-","9">> >>,
       rows |-> << <<Str(<<"A","c","m","e"," ","C","o">>), Num(<<"7">>)>> >>] }

RECURSIVE SheetSeqs(_)
SheetSeqs(n) ==
    IF n = 0 THEN {<< >>}
    ELSE LET shorter == SheetSeqs(n - 1)
         IN  shorter \cup
             {s \o <<[name |-> nm, df |-> d]>> :
                s \in shorter, nm \in SheetNames, d \in ServerFrames}

\* the uploads of the server runs: no file, a file that is no workbook, and
\* workbooks of up to MaxSheets sheets of distinct names
Workbooks ==
    {NoFile, [present |-> TRUE, readable |-> FALSE, sheets |-> << >>]}
    \cup {[present |-> TRUE, readable |-> TRUE, sheets |-> s] :
            s \in {t \in SheetSeqs(MaxSheets) :
                     \A i, j \in 1..Len(t) : i # j => t[i].name # t[j].name}}

OldRow == [j \in 1..Len(ALL_CLIENT_HEADERS) |-> <<"o","l","d">>]

\* input_csv.csv before the first request: absent, header only, one client
InitStores == { << >>, <<ALL_CLIENT_HEADERS>>, <<ALL_CLIENT_HEADERS, OldRow>> }

\* the longest clients list of a save request
MaxClients == 2

\* a client dict of a save request with every canonical key, one with a
\* single key, and one with a key that is no canonical header
FullClient(name) ==
    [j \in 1..Len(ALL_CLIENT_HEADERS) |->
        <<ALL_CLIENT_HEADERS[j],
          IF ALL_CLIENT_HEADERS[j] = <<"c","l","i","e","n","t","N","a","m","e">> THEN Str(name) ELSE Str(<<"x">>)>>]

ClientEntries ==
    { FullClient(<<"A","c","m","e">>), FullClient(<<"B","e","t","a">>),
      << <<<<"c","l","i","e","n","t","N","a","m","e">>, Str(<<"G","a","m","m","a">>)>> >>,
      << <<<<"c","l","i","e","n","t","N","a","m","e">>, Str(<<"D","e","l","t","a">>)>>, <<<<"n","o","t","e","s">>, Str(<<"n">>)>> >> }

RECURSIVE ClientLists(_)
ClientLists(n) ==
    IF n = 0 THEN {<< >>}
    ELSE ClientLists(n - 1) \cup
         {l \o <<c>> : l \in ClientLists(n - 1), c \in ClientEntries}

\* the request bodies of api_clients_save
SaveBodies ==
    {[kind |-> k, clients |-> << >>] : k \in {"malformed", "notdict", "nokey", "notlist"}}
    \cup {[kind |-> "list", clients |-> l] : l \in ClientLists(MaxClients)}

\* the bodies of the status requests: no JSON, no status, a status, the
\* same status with blanks around it
ListBodies ==
    {[kind |-> "malformed", name |-> << >>]}
    \cup {[kind |-> "ok", name |-> t] : t \in {<< >>, <<"D","o","n","e">>, <<" ","D","o","n","e"," ">>}}

\* no reference-list file exists
NoFiles == [f \in FileNames |-> << >>]

\* the reference-list files before the first request: none, or the master
\* status files as an earlier api_master_data_save wrote them
InitFiles ==
    {NoFiles,
     [NoFiles EXCEPT
        !["proposal_status_master.csv"] =
            _write_single_column_csv(<<"P","r","o","p","o","s","a","l"," ","S","t","a","t","u","s">>, << <<"P","a","i","d">> >>),
        !["gstr_status_master.csv"] =
            _write_single_column_csv(<<"G","S","T","R"," ","S","t","a","t","u","s">>, << <<"F","i","l","e","d">>, <<"P","e","n","d","i","n","g">> >>)]}

NoListing ==
    [seniors |-> << >>, members |-> << >>, proposalStatuses |-> << >>,
     gstr9Statuses |-> << >>, gstr9cStatuses |-> << >>, customColumns |-> << >>]

\* the bodies of the add requests of the name lists
AddBodies ==
    {[kind |-> "malformed", name |-> << >>]}
    \cup {[kind |-> "ok", name |-> t] : t \in {<< >>, <<"A","s","h","a">>, <<" ","A","s","h","a"," ">>, <<"R","a","v","i">>}}

\* an add request that has not started
AddRequests ==
    {[list |-> l, body |-> b, pc |-> "start", local |-> << >>, status |-> 0] :
        l \in {"seniors", "members", "customColumns"}, b \in AddBodies}

\* the name lists before the requests: no file, or one name stored
InitAddFiles ==
    {[f \in FileNames |->
        IF \E l \in S : ListFile(l) = f
        THEN _write_single_column_csv(
                 ListHeader(CHOOSE l \in S : ListFile(l) = f), << <<"K","i","r","a","n">> >>)
        ELSE << >>] : S \in SUBSET {"seniors", "members", "customColumns"}}

\* an import request that has not started, uploading one of the sheets of
\* the server runs
ImportRequests ==
    {[wb |-> SheetUpload(d), pc |-> "start", records |-> << >>, buf |-> << >>,
      pos |-> 0, status |-> 0] : d \in ServerFrames}

----------------------------------------------------------------------------
(* Specifications *)

\* a request of the server runs
Receive == pc = "idle" /\ \E f \in Workbooks : ReceiveFile(f)

\* a request uploading one sheet of at most MaxRows rows
ReceiveSheet ==
    /\ pc = "idle"
    /\ \E L \in Layouts : \E n \in 0..MaxRows : \E rs \in [1..n -> RowsOf(L)] :
            ReceiveFile(SheetUpload([columns |-> L, rows |-> rs]))

InitHandler ==
    /\ pc = "idle"
    /\ wb = NoFile
    /\ sheet_name = << >>
    /\ df = NoFrame
    /\ records = << >>
    /\ response = NoResponse
    /\ writeCalls = 0
    /\ writeArg = << >>
    /\ prev = NoImport
    /\ repeat = FALSE
    /\ value = NaN
    /\ result = NaN

\* no reference list, no listing made, no concurrent request
InitLists ==
    /\ files = NoFiles
    /\ listing = NoListing
    /\ accepted = {}
    /\ due = {}
    /\ req = << >>

\* the server, one request after the other
Init ==
    /\ InitHandler
    /\ InitLists
    /\ store \in InitStores
    /\ storeBefore = store

Next ==
    \/ Receive
    \/ ReUpload
    \/ CheckFile
    \/ OpenExcel
    \/ Locate
    \/ ReadSheet
    \/ Filter
    \/ Map
    \/ Normalize
    \/ WriteCsv
    \/ Return
    \/ ClearClients

Spec == Init /\ [][Next]_vars

\* one import of one sheet, or one call of _clean_status
InitImport ==
    \/ /\ InitHandler
       /\ InitLists
       /\ store = <<ALL_CLIENT_HEADERS, OldRow>>
       /\ storeBefore = store
    \/ /\ pc = "call"
       /\ value \in StatusInputs
       /\ result = NaN
       /\ wb = NoFile
       /\ sheet_name = << >>
       /\ df = NoFrame
       /\ records = << >>
       /\ response = NoResponse
       /\ writeCalls = 0
       /\ writeArg = << >>
       /\ prev = NoImport
       /\ repeat = FALSE
       /\ store = << >>
       /\ storeBefore = << >>
       /\ InitLists

NextImport ==
    \/ ReceiveSheet
    \/ CheckFile
    \/ OpenExcel
    \/ Locate
    \/ ReadSheet
    \/ Filter
    \/ Map
    \/ Normalize
    \/ WriteCsv
    \/ CleanStatusCall

SpecImport == InitImport /\ [][NextImport]_vars

\* one save request on a stored dataset
Save == \E body \in SaveBodies : SaveParse(body)

NextSave ==
    \/ Save
    \/ SaveWrite

SpecSave == Init /\ [][NextSave]_vars

\* the status lists, one request after the other
InitMaster ==
    /\ InitHandler
    /\ store = << >>
    /\ storeBefore = << >>
    /\ files \in InitFiles
    /\ listing = NoListing
    /\ accepted = {}
    /\ due = {}
    /\ req = << >>

NextMaster ==
    \/ \E body \in ListBodies : api_add_proposal_status(body)
    \/ \E body \in ListBodies : api_remove_proposal_status(body)
    \/ \E body \in ListBodies : api_add_gstr9_status(body)
    \/ \E body \in ListBodies : api_remove_gstr9_status(body)
    \/ \E body \in ListBodies : api_add_gstr9c_status(body)
    \/ \E body \in ListBodies : api_remove_gstr9c_status(body)
    \/ api_master_data

SpecMaster == InitMaster /\ [][NextMaster]_vars

\* two add requests on the name lists, running concurrently
InitAdd ==
    /\ InitHandler
    /\ store = << >>
    /\ storeBefore = << >>
    /\ files \in InitAddFiles
    /\ listing = NoListing
    /\ accepted = {}
    /\ due = {}
    /\ req \in [Workers -> AddRequests]

NextAdd ==
    \E w \in Workers :
        \/ AddRead(w)
        \/ AddOpen(w)
        \/ AddDump(w)

SpecAdd == InitAdd /\ [][NextAdd]_vars

\* two imports running concurrently
InitRace ==
    /\ InitHandler
    /\ store \in InitStores
    /\ storeBefore = store
    /\ files = NoFiles
    /\ listing = NoListing
    /\ accepted = {}
    /\ due = {}
    /\ req \in [Workers -> ImportRequests]

NextRace ==
    \E w \in Workers :
        \/ RacePipeline(w)
        \/ RaceOpen(w)
        \/ RaceFlush(w)
        \/ RaceClose(w)

SpecRace == InitRace /\ [][NextRace]_vars

----------------------------------------------------------------------------
(* What the claims speak of *)

\* the sheet the handler read, as uploaded
Imported == read_excel(wb, sheet_name)

\* its frame with the header cells trimmed
Stripped == strip_columns(Imported)

\* the rows the row filter let through, and the frame the mapper made of them
Survivors == row_filter(Stripped).rows
Mapped == header_mapper(row_filter(Stripped))

\* the handler holds the records of a pipeline that succeeded
HasRecords == pc = "write" \/ (pc = "done" /\ response.stage = "write")

\* an empty cell stands in a record as ''
Shown(x) == IF x.k = "nan" THEN Str(<< >>) ELSE x

\* the keys of a record, in order
Keys(rec) == [j \in 1..Len(rec) |-> rec[j][1]]

\* the value a record holds for a field
Get(rec, name) == rec[CHOOSE j \in 1..Len(rec) : rec[j][1] = name][2]

\* C1: every record the import produces has exactly the 20 fields of
\* ALL_CLIENT_HEADERS as its keys, in that order, whatever columns the sheet has.
C1_SchemaComplete ==
    \A n \in 1..Len(records) : Keys(records[n]) = ALL_CLIENT_HEADERS

\* C1 witness: a sheet with no mapped header yields two complete records
C1_Witness ==
    /\ pc = "done"
    /\ response.status = 200
    /\ Imported.columns = << <<"N","o","t","e","s">> >>
    /\ Len(records) = 2
    /\ Len(records[1]) = 20

\* C2 (as claimed): for every entry (source header -> field) of the mapping,
\* a sheet column with that source header puts its cell, for every surviving
\* row, into that field of the mapped record.
C2_MappedColumnsCopied ==
    pc = "normalize" =>
        \A sheet \in {Imported} : \A kept \in {Survivors} :
            \A e \in Range(EXCEL_COLUMN_MAPPING) :
                \A i \in 1..Len(sheet.columns) :
                    sheet.columns[i] = e[1] =>
                        \A n \in 1..Len(df.rows) :
                            df.rows[n][Field(e[2])] = Shown(kept[n][i])

\* C3 (as claimed): no cell of a column whose trimmed header is not a key of
\* the mapping appears in any field of a produced record.
C3_UnmappedColumnsDropped ==
    HasRecords =>
        \A sheet \in {Stripped} :
            \A i \in 1..Len(sheet.columns) :
                (\A e \in Range(EXCEL_COLUMN_MAPPING) : e[1] # sheet.columns[i]) =>
                    \A m \in 1..Len(sheet.rows) :
                        ~isna(sheet.rows[m][i]) =>
                            \A n \in 1..Len(records) : \A j \in 1..Len(records[n]) :
                                records[n][j][2] # sheet.rows[m][i]

\* the status rule in the words of the claim, for a text s
ClaimedStatus(s) ==
    IF \A i \in 1..Len(s) : s[i] \in Whitespace THEN Pending
    ELSE Bind(SelectSeq(upper(s), LAMBDA c : c \notin {" ", "-"}), LAMBDA U :
             IF contains(<<"W","I","P">>, U) \/ contains(<<"I","N","P","R","O","G","R","E","S","S">>, U) THEN InProgress
             ELSE IF contains(<<"N","A">>, U) \/ contains(<<"N","O","T","A","P","P","L","I","C","A","B","L","E">>, U)
                  THEN NotApplicable
             ELSE IF contains(<<"F","I","L","E","D">>, U) THEN Filed
             ELSE strip(s))

\* C4: for every text value _clean_status returns Pending for an empty or
\* whitespace-only value, else In Progress, Not Applicable, Filed by the
\* first matching test on the uppercased value without spaces and hyphens,
\* else the trimmed value; and the three status fields of every record are
\* that rule applied to the mapped value.
C4_StatusRule ==
    /\ (pc = "returned" /\ value.k = "str") =>
            result = Str(ClaimedStatus(value.v))
    /\ HasRecords =>
            \A mapped \in {Mapped} :
                \A n \in 1..Len(records) : \A j \in StatusFields :
                    /\ mapped.rows[n][j].k = "str"
                    /\ records[n][j][2] = Str(ClaimedStatus(mapped.rows[n][j].v))

\* C4 witness: a value matching both the WIP and the FILED test is In Progress
C4_Witness ==
    /\ pc = "returned"
    /\ value = Str(<<"F","i","l","e","d"," ","W","I","P">>)
    /\ result = Str(InProgress)

\* C5 (as claimed): "In-Progress" -> In Progress, "" -> Pending,
\* "N/A" -> Not Applicable, "Filed on 12/1" -> Filed,
\* "Some Other Text" -> "Some Other Text".
C5_StatusExamples ==
    pc = "returned" =>
        /\ value = Str(<<"I","n","-","P","r","o","g","r","e","s","s">>) => result = Str(InProgress)
        /\ value = Str(<< >>) => result = Str(Pending)
        /\ value = Str(<<"N","/","A">>) => result = Str(NotApplicable)
        /\ value = Str(<<"F","i","l","e","d"," ","o","n"," ","1","2","/","1">>) => result = Str(Filed)
        /\ value = Str(<<"S","o","m","e"," ","O","t","h","e","r"," ","T","e","x","t">>) => result = Str(<<"S","o","m","e"," ","O","t","h","e","r"," ","T","e","x","t">>)

\* the columns of the sheet that the mapper makes multiRegistration
MultiColumns(sheet) ==
    {i \in 1..Len(sheet.columns) : rename_label(sheet.columns[i]) = <<"m","u","l","t","i","R","e","g","i","s","t","r","a","t","i","o","n">>}

\* the source value of multiRegistration for the n-th surviving row: its
\* cell in that column, missing when the sheet has no such column
MultiSource(sheet, kept, n) ==
    IF MultiColumns(sheet) = {} THEN NaN
    ELSE kept[n][CHOOSE i \in MultiColumns(sheet) : TRUE]

\* C6: multiRegistration of every record is Yes for the source value
\* 'Multiple', No for 'Single' and for an empty or missing value (also when
\* the sheet has no such column), and the source value itself otherwise.
C6_MultiRegistration ==
    HasRecords =>
        \A sheet \in {Stripped} : \A kept \in {Survivors} :
            /\ Cardinality(MultiColumns(sheet)) <= 1
            /\ \A n \in 1..Len(records) :
                    \A source \in {MultiSource(sheet, kept, n)} :
                        Get(records[n], <<"m","u","l","t","i","R","e","g","i","s","t","r","a","t","i","o","n">>) =
                            IF source = Str(<<"M","u","l","t","i","p","l","e">>) THEN Str(<<"Y","e","s">>)
                            ELSE IF source = Str(<<"S","i","n","g","l","e">>) \/ isna(source)
                                 THEN Str(<<"N","o">>)
                            ELSE source

\* C6 witness: a row without a value gets No, a row saying Yes keeps Yes
C6_Witness ==
    /\ pc = "done"
    /\ response.status = 200
    /\ Imported.columns = << <<"C","l","i","e","n","t"," ","N","a","m","e">>, <<"M","u","l","t","i"," ","R","e","g","i","s","t","r","a","i","o","n">> >>
    /\ Imported.rows = << <<Str(<<"A","c","m","e">>), NaN>>, <<Str(<<"A","c","m","e">>), Str(<<"Y","e","s">>)>> >>
    /\ Get(records[1], <<"m","u","l","t","i","R","e","g","i","s","t","r","a","t","i","o","n">>) = Str(<<"N","o">>)
    /\ Get(records[2], <<"m","u","l","t","i","R","e","g","i","s","t","r","a","t","i","o","n">>) = Str(<<"Y","e","s">>)

\* the cell of row r under the one column headed c
Cell(sheet, r, c) == r[CHOOSE i \in Positions(sheet, c) : TRUE]

\* a text cell that equals the literal after trimming and case-folding
Matches(x, literal) == x.k = "str" /\ lower(strip(x.v)) = literal

\* the rows C7 says yield no record
MustDrop(sheet, r) ==
    \/ \A i \in 1..Len(r) : isna(r[i])
    \/ Matches(Cell(sheet, r, <<"S","r">>), <<"s","r">>)
    \/ Matches(Cell(sheet, r, <<"C","l","i","e","n","t"," ","N","a","m","e">>), <<"n","o","t"," ","a","p","p","l","i","c","a","b","l","e">>)

\* the rows C7 says yield one record
MustKeep(sheet, r) == ~MustDrop(sheet, r) /\ ~isna(Cell(sheet, r, <<"C","l","i","e","n","t"," ","N","a","m","e">>))

\* the rows of indices S, in sheet order
RECURSIVE Pick(_, _, _)
Pick(rows, S, m) ==
    IF m > Len(rows) THEN << >>
    ELSE (IF m \in S THEN <<rows[m]>> ELSE << >>) \o Pick(rows, S, m + 1)

\* the row filter has run on a sheet with one 'Sr' and one 'Client Name' column
Filtered ==
    /\ \/ pc \in {"map", "normalize", "write"}
       \/ pc = "done" /\ response.stage \in {"map", "normalize", "write"}
    /\ \A sheet \in {Stripped} :
           /\ Cardinality(Positions(sheet, <<"S","r">>)) = 1
           /\ Cardinality(Positions(sheet, <<"C","l","i","e","n","t"," ","N","a","m","e">>)) = 1

\* C7: on a sheet with a 'Sr' and a 'Client Name' column the row filter lets
\* through, in sheet order, every row with a client name that is neither
\* blank nor a repeated header row nor a 'not applicable' row, and none of
\* the blank, repeated-header and 'not applicable' rows.
C7_RowFilter ==
    Filtered =>
        \A sheet \in {Stripped} : \A kept \in {Survivors} :
            \E S \in SUBSET (1..Len(sheet.rows)) :
                /\ \A m \in 1..Len(sheet.rows) :
                        /\ MustKeep(sheet, sheet.rows[m]) => m \in S
                        /\ MustDrop(sheet, sheet.rows[m]) => m \notin S
                /\ kept = Pick(sheet.rows, S, 1)
                /\ Len(df.rows) = Cardinality(S)
                /\ pc = "map" => df.rows = kept
                /\ HasRecords => Len(records) = Cardinality(S)

\* C7 witness: a repeated header row is gone, the client row after it stays
C7_Witness ==
    /\ pc = "map"
    /\ Imported.columns = << <<"S","r">>, <<"C","l","i","e","n","t"," ","N","a","m","e">> >>
    /\ Imported.rows = << <<Str(<<" ","S","R"," ">>), Str(<<"A","c","m","e">>)>>, <<Num(<<"7">>), Str(<<"A","c","m","e">>)>> >>
    /\ df.rows = << <<Num(<<"7">>), Str(<<"A","c","m","e">>)>> >>

\* the sheet of the uploaded workbook with the given name
SheetNamed(name) == wb.sheets[CHOOSE i \in 1..Len(wb.sheets) : wb.sheets[i].name = name]

\* the handler is past the sheet locator
Located ==
    \/ pc \in {"read", "filter", "map", "normalize", "write"}
    \/ pc = "done" /\ response.stage \in {"filter", "map", "normalize", "write"}

\* C8: the import reads the sheet called exactly 'Tracker' when the
\* workbook has one and its first sheet otherwise; it fails in the locator
\* only for a workbook without sheets, and then nothing is written.
C8_SheetLocator ==
    /\ Located =>
        /\ wb.sheets # << >>
        /\ sheet_name =
             IF \E i \in 1..Len(wb.sheets) : wb.sheets[i].name = <<"T","r","a","c","k","e","r">>
             THEN <<"T","r","a","c","k","e","r">>
             ELSE wb.sheets[1].name
    /\ pc = "filter" => df = strip_columns(SheetNamed(sheet_name).df)
    /\ (pc = "done" /\ response.stage = "locate") =>
        /\ response.status = 500
        /\ wb.sheets = << >>
        /\ writeCalls = 0
        /\ store = storeBefore
    /\ (pc \in {"read", "done"} /\ wb.present /\ wb.readable /\ wb.sheets # << >>) =>
        response.stage # "locate"

\* C8 witness: the second sheet is the one called Tracker, and it is read
C8_Witness ==
    /\ pc = "filter"
    /\ Len(wb.sheets) = 2
    /\ wb.sheets[1].name = <<"t","r","a","c","k","e","r">>
    /\ wb.sheets[2].name = <<"T","r","a","c","k","e","r">>
    /\ wb.sheets[1].df # wb.sheets[2].df
    /\ df = strip_columns(wb.sheets[2].df)

\* a stage of the pipeline fails on the uploaded workbook
StageFails ==
    \/ ~wb.present
    \/ ~wb.readable
    \/ wb.sheets = << >>
    \/ \E chosen \in {IF \E i \in 1..Len(wb.sheets) : wb.sheets[i].name = <<"T","r","a","c","k","e","r">>
                        THEN SheetNamed(<<"T","r","a","c","k","e","r">>).df ELSE wb.sheets[1].df} :
           \E filtered \in {row_filter(strip_columns(chosen))} :
               \/ IsRaise(filtered)
               \/ \E mapped \in {header_mapper(filtered)} :
                      \/ IsRaise(mapped)
                      \/ IsRaise(value_normalizer(mapped))

\* C9: in a run of the handler _write_clients_to_csv is called at most
\* once, only after every stage succeeded and with the complete records;
\* when a stage fails or no file came, it is not called and the stored
\* dataset is what it was before the request.
C9_NoPartialCommit ==
    /\ writeCalls <= 1
    /\ writeCalls = 1 =>
        /\ pc = "done"
        /\ response.stage = "write"
        /\ ~StageFails
        /\ writeArg = records
        /\ Len(records) = Len(df.rows)
    /\ writeCalls = 0 => store = storeBefore
    /\ (pc = "done" /\ StageFails) =>
        /\ response.status \in {400, 500}
        /\ writeCalls = 0
        /\ store = storeBefore

\* C9 witness: the normalizer failed and the stored client is still there
C9_Witness ==
    /\ pc = "done"
    /\ response.status = 500
    /\ response.stage = "normalize"
    /\ writeCalls = 0
    /\ store = <<ALL_CLIENT_HEADERS, OldRow>>

\* the CSV rows of a record sequence: the header, then every record's
\* values as text in header order
CsvRows(recs) ==
    <<ALL_CLIENT_HEADERS>> \o
    [n \in 1..Len(recs) |->
        [j \in 1..Len(ALL_CLIENT_HEADERS) |-> Get(recs[n], ALL_CLIENT_HEADERS[j]).v]]

\* C10: after a successful import the stored dataset is the records the
\* pipeline produced, whatever was stored before; importing the same
\* workbook again produces the same records and leaves the same store.
C10_ReplaceAll ==
    (pc = "done" /\ response.status = 200) =>
        /\ store = CsvRows(records)
        /\ Len(_read_clients_from_csv(store)) = Len(records)
        /\ repeat => (records = prev.records /\ store = prev.store)

\* C10 witness: a workbook of two records imported a second time
C10_Witness ==
    /\ pc = "done"
    /\ response.status = 200
    /\ repeat
    /\ Len(records) = 2
    /\ Len(store) = 3

\* the sheet has a 'Client Name' column with a value in at least one row
ClientNameFilled(sheet) ==
    /\ Positions(sheet, <<"C","l","i","e","n","t"," ","N","a","m","e">>) # {}
    /\ \E m \in 1..Len(sheet.rows) : ~isna(Cell(sheet, sheet.rows[m], <<"C","l","i","e","n","t"," ","N","a","m","e">>))

\* the row is removed by one of the other row filters: it is entirely
\* blank, a repeated header row or a 'not applicable' row
OtherwiseDropped(sheet, r) ==
    \/ \A i \in 1..Len(r) : isna(r[i])
    \/ Positions(sheet, <<"S","r">>) # {} /\ Matches(Cell(sheet, r, <<"S","r">>), <<"s","r">>)
    \/ Positions(sheet, <<"C","l","i","e","n","t"," ","N","a","m","e">>) # {}
            /\ Matches(Cell(sheet, r, <<"C","l","i","e","n","t"," ","N","a","m","e">>), <<"n","o","t"," ","a","p","p","l","i","c","a","b","l","e">>)

\* C11 (as claimed): a row that is not entirely blank is dropped by the
\* critical-column filter only when the sheet has a 'Client Name' column
\* that is non-empty in at least one row and the row's own 'Client Name' is
\* empty; without such a column, or with one that is empty in every row,
\* the filter drops no row.
C11_CriticalFilter ==
    pc = "map" =>
        \A sheet \in {Stripped} :
            \A m \in 1..Len(sheet.rows) :
                \/ sheet.rows[m] \in Range(df.rows)
                \/ OtherwiseDropped(sheet, sheet.rows[m])
                \/ /\ ClientNameFilled(sheet)
                   /\ isna(Cell(sheet, sheet.rows[m], <<"C","l","i","e","n","t"," ","N","a","m","e">>))

\* C13 (as claimed): status normalization returns a value for every raw
\* cell value, a string, a number or the missing marker, and an import
\* never fails in the value normalizer.
C13_StatusTotal ==
    /\ pc = "returned" => ~IsRaise(result)
    /\ pc = "done" => response.stage # "normalize"

\* C14 (as claimed): whenever api_clients_save does not answer ok, the
\* stored client dataset, as _read_clients_from_csv reads it, is the same
\* as before the request.
C14_SaveAllOrNothing ==
    (pc = "done" /\ response.status # 200) =>
        _read_clients_from_csv(store) = _read_clients_from_csv(storeBefore)

\* C15 (as claimed): a listing of api_master_data contains, in the list of
\* its kind, every status that an add handler accepted before it and that
\* no remove request has named since.
C15_AddedStatusListed ==
    \A a \in due : a[2] \in Range(listing[a[1]])

\* the name an add request asks for
Asked(w) == strip(req[w].body.name)

\* C16 (as claimed): when two concurrent add requests for distinct names
\* on the same list have both answered ok, the stored list holds both names.
C16_BothAdded ==
    \A w, v \in DOMAIN req :
        (/\ w # v
         /\ req[w].pc = "done" /\ req[w].status = 200
         /\ req[v].pc = "done" /\ req[v].status = 200
         /\ req[w].list = req[v].list
         /\ Asked(w) # Asked(v)) =>
            {Asked(w), Asked(v)} \subseteq
                Range(_read_single_column_csv(files[ListFile(req[w].list)]))

\* C12 (as claimed): when two concurrent imports have both answered ok,
\* the stored dataset is the complete record sequence of one of them.
C12_LastWriterWins ==
    (\A w \in DOMAIN req : req[w].pc = "done" /\ req[w].status = 200) =>
        \E w \in DOMAIN req : store = CsvRows(req[w].records)

====
